---- MODULE Spec2Model ----
(***************************************************************************)
(* The itinerary planner of travel-optimizer (src/src/planner.py) with its *)
(* scorer (src/src/scorer.py) and geo helpers (src/src/utils.py), as a     *)
(* state machine: one call of plan_itinerary is the sequence               *)
(*   Call, (StartDay, SelectSlot*, EndDay)*, Return                        *)
(* and the caller may call again with the very same pool object.  The     *)
(* candidates come from fetch_pois (src/src/poi_sources_overpass.py), whose *)
(* endpoint fallback and retries are a second state machine, and the       *)
(* preference weights from prefs_from_categories (src/app.py).             *)
(*                                                                         *)
(* Python floats are modelled as exact fixed-point integers:               *)
(*   money      in mills  (1/1000 of the currency unit; 15004 = 15.004)    *)
(*   distance   in metres (1/1000 km)                                      *)
(*   rating and preference weights in tenths (43 = 4.3, 10 = 1.0)          *)
(*   value      in 1/100000 (ValueScale)                                   *)
(* so round(x, 2) is a real conversion: to the nearest multiple of 10.     *)
(* Python objects live on two heaps: objs (dicts) and lsts (lists), so     *)
(* that copying and aliasing are distinguishable.                          *)
(***************************************************************************)
EXTENDS Integers, Sequences, FiniteSets, TLC

VARIABLES
  objs,              \* heap of dicts: ref -> record (a function from keys to values)
  lsts,              \* heap of lists: list ref -> sequence of dict refs
  days, budget, prefs, pace, start_hour, travel_mode,   \* the arguments
  pc,                \* "idle" | "for_days" | "for_slots"
  calls,             \* calls of plan_itinerary made so far by the caller
  previous,          \* <<>> or <<the value the previous call returned>>
  slots_per_day, remaining_budget, remaining, itinerary, total_cost, total_time,
  d, day_items, day_time, day_cost, current, slot,
  selected_categories,   \* the interest categories ticked in the sidebar
  fetch_pc,          \* "idle" | "post" | "sleep" | "returned" | "raised"
  stage,             \* the query of fetch_pois under way: 1, 2 or 3
  endpoint,          \* index into OVERPASS_ENDPOINTS of the endpoint in use
  attempt,           \* attempt of _request_with_retries under way
  last_err,          \* last_err of _request_with_retries
  try_last_err,      \* last_err of _try_endpoints
  attempts,          \* the posts of this query so far: endpoint, attempt, outcome
  slept,             \* tenths of a second this query has slept
  data               \* what the query returned: the size class of its POI list

plan_vars == <<objs, lsts, days, budget, prefs, pace, start_hour, travel_mode, pc, calls,
               previous, slots_per_day, remaining_budget, remaining, itinerary,
               total_cost, total_time, d, day_items, day_time, day_cost, current, slot,
               selected_categories>>

fetch_vars == <<fetch_pc, stage, endpoint, attempt, last_err, try_last_err, attempts,
                slept, data>>

vars == <<plan_vars, fetch_vars>>

args == <<days, budget, prefs, pace, start_hour, travel_mode>>

----------------------------------------------------------------------------
(* Bounds of the model *)

MaxPois == 4         \* longest candidate pool
MaxDays == 2         \* largest days argument
MaxCalls == 2        \* calls the caller makes with the same pool object

(* Program constants *)

daily_time_budget == 480       \* 8 * 60 minutes
BestValueFloor == 1000000000   \* best_value starts at -1e9
ValueScale == 100000           \* value unit: 0.5/km = 50 per metre, 0.02 = 2 per mill
MetresPerStep == 1112          \* 6371 km * pi/180 * 0.01 degree, one step of latitude
None == 0                      \* Python's None where a ref or an index is expected
max_tries == 2                 \* _try_endpoints asks for max_tries=2

----------------------------------------------------------------------------
(* Python primitives *)

Abs(x) == IF x < 0 THEN -x ELSE x

Min(a, b) == IF a < b THEN a ELSE b

\* round(n / d) for d > 0: nearest integer, ties to even
RoundDiv(n, dd) ==
  LET q == n \div dd
      r == n % dd
  IN  IF 2 * r < dd THEN q
      ELSE IF 2 * r > dd THEN q + 1
      ELSE IF q % 2 = 0 THEN q ELSE q + 1

\* round(x, 2) on thousandths: the nearest hundredth, still in thousandths
Round2(x) == RoundDiv(x, 10) * 10

\* dict.get(key, default)
Get(dict, key, default) == IF key \in DOMAIN dict THEN dict[key] ELSE default

\* str.lower() on the category labels of the model
Lower(s) == CASE s = "Nature" -> "nature" [] s = "Food" -> "food" [] OTHER -> s

\* the pool the caller hands over: a reference to the caller's list
pois == "caller"

----------------------------------------------------------------------------
(* src/src/scorer.py *)

\* a scorer that looks the category up as the record spells it
score_poi_as_carried(poi, prfs) ==
  LET cat == Get(poi, "category", "")
      base == Get(poi, "rating", 40)
      pref_boost == Get(prfs, cat, 0) * 2
  IN  base + pref_boost

score_poi(poi, prfs) ==
  LET cat == Lower(Get(poi, "category", ""))
      base == Get(poi, "rating", 40)
      pref_boost == Get(prfs, cat, 0) * 2
  IN  base + pref_boost

(* src/src/utils.py *)

\* all points of the model lie on one meridian (lon1 = lon2), where the
\* haversine formula reduces to R * |lat2 - lat1| (in radians); lat counts
\* steps of 0.01 degree and the result is in metres
haversine_km(lat1, lon1, lat2, lon2) == Abs(lat2 - lat1) * MetresPerStep

\* speed in tenths of km/h
speed_kmh(mode) ==
  CASE mode = "walk" -> 45 [] mode = "transit" -> 180 [] mode = "drive" -> 280
    [] OTHER -> 280

overhead(mode) ==
  CASE mode = "walk" -> 3 [] mode = "transit" -> 10 [] mode = "drive" -> 8
    [] OTHER -> 8

\* int(round((dist_km / speed) * 60 + overhead)), dist_km in metres:
\* (m/1000) / (s/10) * 60 = 3m / 5s
travel_minutes_km(dist_km, mode) ==
  RoundDiv(dist_km * 3 + overhead(mode) * 5 * speed_kmh(mode), 5 * speed_kmh(mode))

----------------------------------------------------------------------------
(* src/app.py *)

ALL_CATEGORIES ==
  {"nature", "food", "museums", "nightlife", "coffee", "shopping", "viewpoints", "events"}

\* weights in tenths: selected => 1.0, not selected => 0.2, for the four
\* categories the loop names
prefs_from_categories(selected) ==
  [c \in {"nature", "food", "museums", "nightlife"} |->
     IF c \in selected THEN 10 ELSE 2]

----------------------------------------------------------------------------
(* src/src/poi_sources_overpass.py *)

OVERPASS_ENDPOINTS ==
  <<"https://overpass-api.de/api/interpreter",
    "https://overpass.kumi.systems/api/interpreter",
    "https://overpass.nchc.org.tw/api/interpreter">>

\* what requests.post, raise_for_status or r.json() raise when a post fails
Errors == {"Timeout", "HTTPError"}

\* random.random(), in tenths
Randoms == {0, 9}

\* len(pois) >= 10 ("many") or not ("few") for the data that came back
Sizes == {"few", "many"}

\* a retry loop that runs once too often
TriesLeftInclusive(att) == att <= max_tries

\* for attempt in range(1, max_tries + 1): another attempt follows attempt att
TriesLeft(att) == att < max_tries

\* time.sleep(min(6, (2 ** attempt) + random.random())), in tenths of a second
Backoff(att, rnd) == Min(60, (2 ^ att) * 10 + rnd)

----------------------------------------------------------------------------
(* src/src/planner.py: plan_itinerary *)

\* a slot table that is one too generous
pace_to_slots_shifted(p) ==
  CASE p = "relaxed" -> 4 [] p = "moderate" -> 5 [] p = "packed" -> 6 [] OTHER -> 5

pace_to_slots(p) ==
  CASE p = "relaxed" -> 3 [] p = "moderate" -> 4 [] p = "packed" -> 5 [] OTHER -> 4

\* the ref of the dict that dict(p) makes of the k-th record of the pool
NewRef(k) == MaxPois + k

\* remaining = list(pois): a new list of the caller's own dicts
ShallowCopyPool == [ref |-> "work", items |-> lsts[pois], heap |-> objs]

\* remaining = pois: the caller's own list
AliasPool == [ref |-> pois, items |-> lsts[pois], heap |-> objs]

\* remaining = [dict(p) for p in pois]: a new list of new dicts
CopyPool ==
  LET given == lsts[pois]
  IN  [ref   |-> "work",
       items |-> [k \in 1..Len(given) |-> NewRef(k)],
       heap  |-> [r \in {NewRef(k) : k \in 1..Len(given)} |-> objs[given[r - MaxPois]]]
                 @@ [r \in {x \in DOMAIN objs : x <= MaxPois} |-> objs[r]]]

Remaining == lsts[remaining]

\* list.sort(key=..., reverse=True) is stable: records of equal score keep
\* their order.  Insert puts ref r behind every record scoring at least as
\* much.
RECURSIVE Insert(_, _)
Insert(r, s) ==
  IF s = <<>> THEN <<r>>
  ELSE IF score_poi(objs[Head(s)], prefs) >= score_poi(objs[r], prefs)
       THEN <<Head(s)>> \o Insert(r, Tail(s))
       ELSE <<r>> \o s

RECURSIVE SortByScore(_)
SortByScore(s) ==
  IF s = <<>> THEN <<>>
  ELSE Insert(s[Len(s)], SortByScore(SubSeq(s, 1, Len(s) - 1)))

Cost(poi) == Get(poi, "avg_cost", 0)
\* a visit that takes 90 minutes when the record gives no duration
DurDefault90(poi) == Get(poi, "visit_duration_mins", 90)

Dur(poi) == Get(poi, "visit_duration_mins", 60)

\* travel from current to poi: 0 / 0.0 for the first stop of a day
TravelKm(poi) ==
  IF current = None THEN 0
  ELSE haversine_km(objs[current].lat, objs[current].lon, poi.lat, poi.lon)

TravelMins(poi) ==
  IF current = None THEN 0 ELSE travel_minutes_km(TravelKm(poi), travel_mode)

\* a money budget that starts afresh every day
AffordablePerDay(poi) == ~(Cost(poi) > budget - day_cost)

\* not (cost > remaining_budget)
Affordable(poi) == ~(Cost(poi) > remaining_budget)

\* the time check of the planner variant that gives travel no minutes
FitsDayNoTravel(poi) == ~(day_time + Dur(poi) > daily_time_budget)

\* a day that has to end 480 minutes after 10:00, whenever it starts
FitsDayByClock(poi) ==
  ~((start_hour - 10) * 60 + day_time + TravelMins(poi) + Dur(poi) > daily_time_budget)

\* not (day_time + travel_mins + dur > daily_time_budget)
FitsDay(poi) == ~(day_time + TravelMins(poi) + Dur(poi) > daily_time_budget)

\* a value that takes no account of the way to the candidate
ValueWithoutTravel(poi) ==
  score_poi(poi, prefs) * (ValueScale \div 10) - Cost(poi) * 2

\* value = score_poi(poi, prefs) - travel_km * 0.5 - cost * 0.02, in 1/ValueScale
Value(poi) ==
  score_poi(poi, prefs) * (ValueScale \div 10) - TravelKm(poi) * 50 - Cost(poi) * 2

\* value >= best_value: of equal values the later one is kept
BetterOrEqual(value, best_idx, best_value) ==
  IF best_idx = None
  THEN LET q == value \div ValueScale
       IN  q > -BestValueFloor \/ (q = -BestValueFloor /\ value % ValueScale > 0)
  ELSE value >= best_value

\* value > best_value: best_value is -1e9 until a candidate is taken
Better(value, best_idx, best_value) ==
  IF best_idx = None
  THEN LET q == value \div ValueScale
       IN  q > -BestValueFloor \/ (q = -BestValueFloor /\ value % ValueScale > 0)
  ELSE value > best_value

\* for i, poi in enumerate(remaining): ... ; the result is best_idx (1-based)
RECURSIVE Scan(_, _, _)
Scan(i, best_idx, best_value) ==
  IF i > Len(Remaining) THEN best_idx
  ELSE LET poi == objs[Remaining[i]]
       IN  IF Affordable(poi) /\ FitsDay(poi) /\ Better(Value(poi), best_idx, best_value)
           THEN Scan(i + 1, i, Value(poi))
           ELSE Scan(i + 1, best_idx, best_value)

BestIdx == Scan(1, None, 0)

\* a pop that hands out the record and leaves it in the pool
PopKeeps(s, i) == s

\* remaining.pop(best_idx)
Pop(s, i) == SubSeq(s, 1, i - 1) \o SubSeq(s, i + 1, Len(s))

\* chosen["_travel_from_prev_mins"] = ...; chosen["_travel_from_prev_km"] = round(..., 2)
Annotate(dict, travel_mins, travel_km) ==
  ("_travel_from_prev_mins" :> travel_mins) @@
  ("_travel_from_prev_km" :> Round2(travel_km)) @@ dict

\* a clock that gives travel no minutes
AdvanceNoTravel(t_cursor, k, item) == t_cursor

\* t_cursor after the travel to item k: only items after the first advance it
Advance(t_cursor, k, item) ==
  IF k > 1 THEN t_cursor + Get(item, "_travel_from_prev_mins", 0) ELSE t_cursor

TimelineEntry(item, start, end) ==
  [name |-> Get(item, "name", "Unknown"),
   category |-> Get(item, "category", "other"),
   start_min |-> start,
   end_min |-> end,
   travel_from_prev_mins |-> Get(item, "_travel_from_prev_mins", 0),
   travel_from_prev_km |-> Get(item, "_travel_from_prev_km", 0),
   lat |-> Get(item, "lat", None),
   lon |-> Get(item, "lon", None),
   avg_cost |-> Get(item, "avg_cost", 0)]

\* for item in day_items: ...  (k is the position of item, t_cursor the clock)
RECURSIVE BuildTimeline(_, _, _)
BuildTimeline(items, k, t_cursor) ==
  IF k > Len(items) THEN <<>>
  ELSE LET item == objs[items[k]]
           start == Advance(t_cursor, k, item)
           end == start + Get(item, "visit_duration_mins", 60)
       IN  <<TimelineEntry(item, start, end)>> \o BuildTimeline(items, k + 1, end)

\* a loop that runs once too often
InRangeInclusive(i, n) == i <= n

\* for d in range(days): the loop runs while d is in range(days)
InRange(i, n) == i < n

\* day records numbered from 0
DayRecordZeroBased ==
  [day |-> d,
   items |-> day_items,
   timeline |-> BuildTimeline(day_items, 1, start_hour * 60),
   day_cost |-> Round2(day_cost),
   day_time_mins |-> day_time]

\* lines 110-116: the record appended for the day that just ended
DayRecord ==
  [day |-> d + 1,
   items |-> day_items,
   timeline |-> BuildTimeline(day_items, 1, start_hour * 60),
   day_cost |-> Round2(day_cost),
   day_time_mins |-> day_time]

\* totals where the remaining budget is derived from the rounded total cost
TotalsFromRounded ==
  [itinerary EXCEPT !.total_cost = Round2(total_cost),
                    !.total_time_mins = total_time,
                    !.remaining_budget = Round2(budget - Round2(total_cost))]

\* lines 121-123: the totals written into the itinerary before it is returned
Totals ==
  [itinerary EXCEPT !.total_cost = Round2(total_cost),
                    !.total_time_mins = total_time,
                    !.remaining_budget = Round2(remaining_budget)]

\* the value of an itinerary: every item ref replaced by the dict it names
Deep(it) ==
  [it EXCEPT !.days =
     [k \in DOMAIN it.days |->
        [it.days[k] EXCEPT !.items = [j \in DOMAIN it.days[k].items |->
                                        objs[it.days[k].items[j]]]]]]

----------------------------------------------------------------------------
(* The inputs of the model *)

\* candidate records as the caller builds them (app.py: name, category,
\* avg_cost, visit_duration_mins, rating, lat, lon); Spot carries only the
\* keys the planner requires, so every .get default is exercised
Cafe ==
  [name |-> "Cafe", category |-> "food", avg_cost |-> 15004,
   visit_duration_mins |-> 90, rating |-> 43, lat |-> 0, lon |-> 0]
Park ==
  [name |-> "Park", category |-> "Nature", avg_cost |-> 25000,
   visit_duration_mins |-> 240, rating |-> 25, lat |-> 9, lon |-> 0]
Spot ==
  [name |-> "Spot", lat |-> 2, lon |-> 0]

Kinds == {Cafe, Park, Spot}

Pools == UNION {[1..n -> Kinds] : n \in 0..MaxPois}

Budgets == {0, 40016, 50000}

\* the categories the user ticked
Foodie == {"food", "coffee"}
Outdoors == {"nature", "museums", "events"}
FoodOnly == {"food"}

\* pace, start_hour, travel_mode and selected categories as the app combines them
Trips ==
  {<<"relaxed", 10, "drive", Foodie>>, <<"relaxed", 17, "walk", Outdoors>>,
   <<"moderate", 10, "transit", Outdoors>>, <<"packed", 19, "drive", Foodie>>,
   <<"hectic", 6, "bike", FoodOnly>>, <<"moderate", 10, "walk", FoodOnly>>}

\* the start hours a user who plans again moves to
StartHours == {10, 19}

\* the app before "Generate itinerary" is pressed: a pool, the sidebar
\* settings, and prefs = prefs_from_categories(selected_categories)
InitPlan(pools, dayss, budgets, trips) ==
  /\ \E pool \in pools :
       /\ objs = pool
       /\ lsts = [l \in {"caller", "work"} |->
                    IF l = "caller" THEN [k \in DOMAIN pool |-> k] ELSE <<>>]
  /\ days \in dayss
  /\ budget \in budgets
  /\ \E t \in trips :
       /\ pace = t[1] /\ start_hour = t[2] /\ travel_mode = t[3]
       /\ selected_categories = t[4]
       /\ prefs = prefs_from_categories(t[4])
  /\ pc = "idle"
  /\ calls = 0
  /\ previous = <<>>
  /\ slots_per_day = 0
  /\ remaining_budget = 0
  /\ remaining = "work"
  /\ itinerary = [days |-> <<>>, total_cost |-> 0, total_time_mins |-> 0,
                  remaining_budget |-> 0]
  /\ total_cost = 0
  /\ total_time = 0
  /\ d = 0
  /\ day_items = <<>>
  /\ day_time = 0
  /\ day_cost = 0
  /\ current = None
  /\ slot = 0

\* no query under way
InitFetch ==
  /\ fetch_pc = "idle"
  /\ stage = 0
  /\ endpoint = 0
  /\ attempt = 0
  /\ last_err = "None"
  /\ try_last_err = "None"
  /\ attempts = <<>>
  /\ slept = 0
  /\ data = "None"

Init == InitPlan(Pools, -1..MaxDays, Budgets, Trips) /\ InitFetch

----------------------------------------------------------------------------
(* plan_itinerary, step by step *)

\* lines 14-23: the call binds the arguments (start_hour = h) and sets up
\* the locals
CallWith(h) ==
  /\ pc = "idle"
  /\ calls < MaxCalls
  /\ calls' = calls + 1
  /\ previous' = IF calls = 0 THEN <<>> ELSE <<Deep(itinerary), start_hour>>
  /\ start_hour' = h
  /\ slots_per_day' = pace_to_slots(pace)
  /\ remaining_budget' = budget
  /\ remaining' = CopyPool.ref
  /\ lsts' = [lsts EXCEPT ![CopyPool.ref] = CopyPool.items]
  /\ objs' = CopyPool.heap
  /\ itinerary' = [days |-> <<>>, total_cost |-> 0, total_time_mins |-> 0,
                   remaining_budget |-> budget]
  /\ total_cost' = 0
  /\ total_time' = 0
  /\ d' = 0
  /\ pc' = "for_days"
  /\ UNCHANGED <<days, budget, prefs, pace, travel_mode, day_items, day_time, day_cost,
                 current, slot, selected_categories, fetch_vars>>

\* the caller calls with the arguments as they are
Call == CallWith(start_hour)

\* the user moves "Day starts at" and generates the itinerary again
Replan == calls >= 1 /\ \E h \in StartHours \ {start_hour} : CallWith(h)

\* lines 25-32: the next day begins; the pool is sorted by score, descending
StartDay ==
  /\ pc = "for_days"
  /\ InRange(d, days)
  /\ day_items' = <<>>
  /\ day_time' = 0
  /\ day_cost' = 0
  /\ current' = None
  /\ lsts' = [lsts EXCEPT ![remaining] = SortByScore(@)]
  /\ slot' = 0
  /\ pc' = "for_slots"
  /\ UNCHANGED <<objs, args, calls, previous, slots_per_day, remaining_budget,
                 remaining, itinerary, total_cost, total_time, d,
                 selected_categories, fetch_vars>>

\* lines 34-83: one slot: scan the pool, pop the best candidate, annotate it
SelectSlot ==
  /\ pc = "for_slots"
  /\ slot < slots_per_day
  /\ BestIdx # None
  /\ LET chosen == Remaining[BestIdx]
         travel_km == TravelKm(objs[chosen])
         travel_mins == TravelMins(objs[chosen])
         c == Cost(objs[chosen])
         t == Dur(objs[chosen])
     IN  /\ lsts' = [lsts EXCEPT ![remaining] = Pop(@, BestIdx)]
         /\ objs' = [objs EXCEPT ![chosen] = Annotate(@, travel_mins, travel_km)]
         /\ day_items' = Append(day_items, chosen)
         /\ current' = chosen
         /\ remaining_budget' = remaining_budget - c
         /\ day_cost' = day_cost + c
         /\ day_time' = day_time + travel_mins + t
  /\ slot' = slot + 1
  /\ UNCHANGED <<args, pc, calls, previous, slots_per_day, remaining, itinerary,
                 total_cost, total_time, d, selected_categories, fetch_vars>>

\* lines 61-62 and 85-119: the slots are used up or nothing is eligible; the
\* timeline is built, the day appended and the totals advanced
EndDay ==
  /\ pc = "for_slots"
  /\ (slot >= slots_per_day \/ BestIdx = None)
  /\ itinerary' = [itinerary EXCEPT !.days = Append(@, DayRecord)]
  /\ total_cost' = total_cost + day_cost
  /\ total_time' = total_time + day_time
  /\ d' = d + 1
  /\ pc' = "for_days"
  /\ UNCHANGED <<objs, lsts, args, calls, previous, slots_per_day, remaining_budget,
                 remaining, day_items, day_time, day_cost, current, slot,
                 selected_categories, fetch_vars>>

\* lines 121-124: range(days) is exhausted (at once when days <= 0)
Return ==
  /\ pc = "for_days"
  /\ ~InRange(d, days)
  /\ itinerary' = Totals
  /\ pc' = "idle"
  /\ UNCHANGED <<objs, lsts, args, calls, previous, slots_per_day, remaining_budget,
                 remaining, total_cost, total_time, d, day_items, day_time, day_cost,
                 current, slot, selected_categories, fetch_vars>>

Next == Call \/ StartDay \/ SelectSlot \/ EndDay \/ Return

Spec == Init /\ [][Next]_vars

\* the first plan, then plans at other start hours
FirstCall == calls = 0 /\ Call

NextReplan == FirstCall \/ Replan \/ StartDay \/ SelectSlot \/ EndDay \/ Return

SpecReplan == Init /\ [][NextReplan]_vars

----------------------------------------------------------------------------
(* fetch_pois, step by step *)

\* _try_endpoints(query) is entered: the first endpoint, its first attempt
BeginQuery(s) ==
  /\ stage' = s
  /\ endpoint' = 1
  /\ attempt' = 1
  /\ last_err' = "None"
  /\ try_last_err' = "None"
  /\ attempts' = <<>>
  /\ slept' = 0
  /\ data' = "None"
  /\ fetch_pc' = "post"
  /\ UNCHANGED plan_vars

\* line 220: fetch_pois sends its first query (nodes only)
FetchPois == fetch_pc = "idle" /\ BeginQuery(1)

\* lines 222-234: fewer than 10 POIs came back, the next query is sent
NextQuery ==
  /\ fetch_pc = "returned"
  /\ data = "few"
  /\ stage < 3
  /\ BeginQuery(stage + 1)

\* lines 136-138 and 149: the post succeeds; its data is returned through
\* _request_with_retries and _try_endpoints at once
PostSucceeds ==
  /\ fetch_pc = "post"
  /\ \E size \in Sizes : data' = size
  /\ attempts' = Append(attempts, [endpoint |-> endpoint, attempt |-> attempt,
                                    outcome |-> "ok"])
  /\ fetch_pc' = "returned"
  /\ UNCHANGED <<plan_vars, stage, endpoint, attempt, last_err, try_last_err, slept>>

\* lines 136-140: the post, the status check or the decoding raises
PostFails ==
  /\ fetch_pc = "post"
  /\ \E e \in Errors :
       /\ last_err' = e
       /\ attempts' = Append(attempts, [endpoint |-> endpoint, attempt |-> attempt,
                                         outcome |-> e])
  /\ fetch_pc' = "sleep"
  /\ UNCHANGED <<plan_vars, stage, endpoint, attempt, try_last_err, slept, data>>

\* line 141, then line 134: sleep, then the next attempt on this endpoint
Retry ==
  /\ fetch_pc = "sleep"
  /\ TriesLeft(attempt)
  /\ \E rnd \in Randoms : slept' = slept + Backoff(attempt, rnd)
  /\ attempt' = attempt + 1
  /\ fetch_pc' = "post"
  /\ UNCHANGED <<plan_vars, stage, endpoint, last_err, try_last_err, attempts, data>>

\* lines 141-142 and 147-151: sleep, raise last_err out of the retries;
\* _try_endpoints keeps it and goes to the next endpoint
Fallback ==
  /\ fetch_pc = "sleep"
  /\ ~TriesLeft(attempt)
  /\ endpoint < Len(OVERPASS_ENDPOINTS)
  /\ \E rnd \in Randoms : slept' = slept + Backoff(attempt, rnd)
  /\ try_last_err' = last_err
  /\ endpoint' = endpoint + 1
  /\ attempt' = 1
  /\ last_err' = "None"
  /\ fetch_pc' = "post"
  /\ UNCHANGED <<plan_vars, stage, attempts, data>>

\* lines 141-142 and 150-152: sleep, raise out of the retries on the last
\* endpoint; _try_endpoints raises that error to fetch_pois and its caller
RaiseLast ==
  /\ fetch_pc = "sleep"
  /\ ~TriesLeft(attempt)
  /\ endpoint = Len(OVERPASS_ENDPOINTS)
  /\ \E rnd \in Randoms : slept' = slept + Backoff(attempt, rnd)
  /\ try_last_err' = last_err
  /\ fetch_pc' = "raised"
  /\ UNCHANGED <<plan_vars, stage, endpoint, attempt, last_err, attempts, data>>

NextFetch ==
  FetchPois \/ NextQuery \/ PostSucceeds \/ PostFails \/ Retry \/ Fallback \/ RaiseLast

\* the app when "Fetch POIs" is pressed: no candidates yet, default settings
InitBeforeFetch ==
  InitPlan({<<>>}, {MaxDays}, {50000}, {<<"moderate", 10, "drive", Foodie>>}) /\ InitFetch

SpecFetch == InitBeforeFetch /\ [][NextFetch]_vars

----------------------------------------------------------------------------
(* What the claims speak about *)

\* plan_itinerary has returned (the itinerary is the returned value)
Returned == pc = "idle" /\ calls >= 1

RECURSIVE Flatten(_)
Flatten(ss) == IF ss = <<>> THEN <<>> ELSE Head(ss) \o Flatten(Tail(ss))

\* the refs selected so far in this call: the finished days, then today
Selected ==
  Flatten([k \in DOMAIN itinerary.days |-> itinerary.days[k].items])
    \o (IF pc = "for_slots" THEN day_items ELSE <<>>)

RECURSIVE SumOver(_, _)
SumOver(F(_), s) == IF s = <<>> THEN 0 ELSE F(Head(s)) + SumOver(F, Tail(s))

CostOfRef(r) == IF "avg_cost" \in DOMAIN objs[r] THEN objs[r].avg_cost ELSE 0
DurOfRef(r) == IF "visit_duration_mins" \in DOMAIN objs[r]
               THEN objs[r].visit_duration_mins ELSE 60
TravelOfRef(r) == objs[r]["_travel_from_prev_mins"]

SelectedCost == SumOver(CostOfRef, Selected)

\* minutes a day takes, recomputed from its items
DayMinutes(items) == SumOver(DurOfRef, items) + SumOver(TravelOfRef, items)

----------------------------------------------------------------------------
(* Claims *)

\* C1: no record of the pool is selected more than once over all days and
\* slots: the selected refs are pairwise distinct, and a selected ref is no
\* longer in the pool.
C1_SelectedAtMostOnce ==
  calls >= 1 =>
    /\ \A i, j \in DOMAIN Selected : i # j => Selected[i] # Selected[j]
    /\ \A i \in DOMAIN Selected : \A j \in DOMAIN Remaining : Selected[i] # Remaining[j]

\* C1 witness: a returned two-day itinerary whose days both hold a record of
\* the same content (two equal records of the pool, each selected once).
C1_Witness ==
  /\ Returned
  /\ Len(itinerary.days) = 2
  /\ \E i \in DOMAIN itinerary.days[1].items, j \in DOMAIN itinerary.days[2].items :
       objs[itinerary.days[1].items[i]].name = objs[itinerary.days[2].items[j]].name

\* C2: every day record has day_time_mins <= 480, where the minutes are the
\* visit durations plus the travel between stops; the day being built obeys
\* the ceiling too, and each day starts from 0.
C2_DayWithinCeiling ==
  /\ \A k \in DOMAIN itinerary.days :
       /\ itinerary.days[k].day_time_mins <= 480
       /\ DayMinutes(itinerary.days[k].items) <= 480
  /\ (pc = "for_slots" /\ calls >= 1) => DayMinutes(day_items) <= 480

\* C2 witness: day 1 stopped short of its slots because nothing more fitted
\* the ceiling (travel included), a candidate left over was selected on day
\* 2, and the two days together take more than 480 minutes.
C2_Witness ==
  /\ Returned
  /\ Len(itinerary.days) = 2
  /\ Len(itinerary.days[1].items) \in 2..(slots_per_day - 1)
  /\ itinerary.days[2].items # <<>>
  /\ itinerary.days[1].day_time_mins + itinerary.days[2].day_time_mins > 480

\* C3: the money budget is one counter for the whole trip: after every
\* selection remaining_budget = budget - (cost of everything selected) >= 0,
\* so no selected POI cost more than what was left and the total is <= budget.
C3_WithinBudget ==
  calls >= 1 =>
    /\ remaining_budget >= 0
    /\ remaining_budget = budget - SelectedCost
    /\ SelectedCost <= budget

\* C3 witness: on day 2, after paid selections on day 1, a candidate is left
\* in the pool because it costs more than the remaining budget.
C3_Witness ==
  /\ pc = "for_days"
  /\ Len(itinerary.days) = 2
  /\ itinerary.days[1].day_cost > 0
  /\ itinerary.days[2].items # <<>>
  /\ Len(itinerary.days[2].items) < slots_per_day
  /\ \E j \in DOMAIN Remaining :
       /\ CostOfRef(Remaining[j]) > remaining_budget
       /\ CostOfRef(Remaining[j]) <= budget - itinerary.days[2].day_cost

\* the records of the pool the caller handed over
PoolSize == Len(lsts[pois])

DayCostOf(day) == day.day_cost
DayCostSum == SumOver(DayCostOf, itinerary.days)

\* the budget and every cost of the pool are whole cents
WholeCents ==
  /\ budget % 10 = 0
  /\ \A k \in DOMAIN lsts[pois] : CostOfRef(lsts[pois][k]) % 10 = 0

\* C4 as stated: total_cost is the sum of the selected costs and of the
\* days' day_cost, total_cost >= 0, and
\* remaining_budget == round(budget - total_cost, 2).
C4_AsStated ==
  Returned =>
    /\ itinerary.total_cost = SelectedCost
    /\ itinerary.total_cost = DayCostSum
    /\ itinerary.total_cost >= 0
    /\ itinerary.remaining_budget = Round2(budget - itinerary.total_cost)

\* C4 amended: total_cost is the sum of the selected costs rounded to cents,
\* total_cost >= 0, and remaining_budget is budget minus the unrounded sum,
\* rounded to cents; when the budget and all costs are whole cents the
\* equalities of the claim hold as stated.
C4_TotalsRounded ==
  Returned =>
    /\ itinerary.total_cost = Round2(SelectedCost)
    /\ itinerary.total_cost >= 0
    /\ itinerary.remaining_budget = Round2(budget - SelectedCost)
    /\ WholeCents =>
         /\ itinerary.total_cost = SelectedCost
         /\ itinerary.total_cost = DayCostSum
         /\ itinerary.remaining_budget = Round2(budget - itinerary.total_cost)
         /\ itinerary.remaining_budget = budget - itinerary.total_cost

\* C4 witness: a returned two-day itinerary whose selected costs do not sum
\* to whole cents, so that rounding changes the total.
C4_Witness ==
  /\ Returned
  /\ Len(itinerary.days) = 2
  /\ itinerary.days[2].items # <<>>
  /\ itinerary.total_cost # SelectedCost
  /\ itinerary.total_cost > 0

\* C5: each day's timeline is one chain in selection order: the first entry
\* starts at start_hour * 60 with no travel (on every day), each later entry
\* starts at the previous end plus its travel_from_prev_mins, and each entry
\* ends at its start plus its visit duration.
C5_TimelineChain ==
  \A n \in DOMAIN itinerary.days :
    LET tl == itinerary.days[n].timeline
        items == itinerary.days[n].items
    IN  /\ Len(tl) = Len(items)
        /\ \A k \in DOMAIN tl :
             /\ tl[k].end_min = tl[k].start_min + DurOfRef(items[k])
             /\ k = 1 => /\ tl[k].start_min = start_hour * 60
                         /\ tl[k].travel_from_prev_mins = 0
                         /\ tl[k].travel_from_prev_km = 0
             /\ k > 1 => tl[k].start_min = tl[k - 1].end_min + tl[k].travel_from_prev_mins

\* C5 witness: day 1 has a stop reached by travel over a distance, and day
\* 2 starts at a stop away from the last stop of day 1.
C5_Witness ==
  /\ Returned
  /\ Len(itinerary.days) = 2
  /\ Len(itinerary.days[1].timeline) >= 2
  /\ itinerary.days[1].timeline[2].travel_from_prev_km > 0
  /\ itinerary.days[1].timeline[2].travel_from_prev_mins > 0
  /\ itinerary.days[2].timeline # <<>>
  /\ itinerary.days[2].timeline[1].lat
       # itinerary.days[1].timeline[Len(itinerary.days[1].timeline)].lat

\* the slots the claim gives each pace
SlotsOfPace ==
  IF pace = "relaxed" THEN 3 ELSE IF pace = "packed" THEN 5 ELSE 4

C7_AsStated ==
  (Returned /\ days <= 0) =>
    /\ itinerary.days = <<>>
    /\ itinerary.total_cost = 0
    /\ itinerary.total_time_mins = 0
    /\ itinerary.remaining_budget = budget

\* C7 amended: with days <= 0 the call returns no days, zero totals and
\* remaining_budget equal to the initial budget rounded to cents (the budget
\* itself when it is whole cents), whatever the pool holds.
C7_NoDays ==
  (Returned /\ days <= 0) =>
    /\ itinerary.days = <<>>
    /\ itinerary.total_cost = 0
    /\ itinerary.total_time_mins = 0
    /\ itinerary.remaining_budget = Round2(budget)
    /\ budget % 10 = 0 => itinerary.remaining_budget = budget

\* C7 witness: a call with negative days, a non-empty pool and a budget
\* that is not whole cents has returned.
C7_Witness ==
  /\ Returned
  /\ days < 0
  /\ PoolSize > 0
  /\ budget % 10 # 0

\* no candidate of the pool is affordable and fits an empty day
NoneEligible ==
  \A j \in DOMAIN Remaining :
    \/ CostOfRef(Remaining[j]) > remaining_budget
    \/ DurOfRef(Remaining[j]) > 480

\* the record of a day on which nothing was selected
EmptyDay(n) ==
  [day |-> n, items |-> <<>>, timeline |-> <<>>, day_cost |-> 0, day_time_mins |-> 0]

\* C8, the state part: the day records are numbered 1.., an itemless day is
\* an empty record, a returned run with days >= 1 holds exactly `days`
\* records, and budget 0 with all costs > 0 leaves every day empty.
C8_DaysNumbered ==
  /\ \A n \in DOMAIN itinerary.days :
       /\ itinerary.days[n].day = n
       /\ itinerary.days[n].items = <<>> => itinerary.days[n] = EmptyDay(n)
  /\ (Returned /\ days >= 1) => Len(itinerary.days) = days
  /\ (Returned /\ budget = 0 /\ \A k \in DOMAIN lsts[pois] : CostOfRef(lsts[pois][k]) > 0)
       => /\ itinerary.total_cost = 0
          /\ \A n \in DOMAIN itinerary.days : itinerary.days[n] = EmptyDay(n)

\* C8, the step part: from a day that has nothing yet and no eligible
\* candidate, the next step appends the empty record and moves to the next day.
C8_EmptyDayStep ==
  (pc = "for_slots" /\ day_items = <<>> /\ NoneEligible)
    => /\ pc' = "for_days"
       /\ itinerary'.days = Append(itinerary.days, EmptyDay(d + 1))

\* C8: for days >= 1 the itinerary holds exactly `days` day records numbered
\* 1..days; a day on which no remaining candidate is affordable and fits
\* ends as an empty record (no items, no timeline, day_cost 0, day_time_mins
\* 0) and the run goes on; with budget 0 and all costs > 0 every day is empty
\* and total_cost is 0.
C8_InfeasibleDaysAreEmpty == [](C8_DaysNumbered) /\ [][C8_EmptyDayStep]_vars

\* C8 witness: a returned two-day itinerary whose second day is empty while
\* candidates are still in the pool.
C8_Witness ==
  /\ Returned
  /\ Len(itinerary.days) = 2
  /\ itinerary.days[1].items # <<>>
  /\ itinerary.days[2] = EmptyDay(2)
  /\ Remaining # <<>>

\* C9: no step of plan_itinerary changes the caller's pool: the caller's
\* list keeps its length and order, and every record in it keeps its keys
\* and values.
C9_CallerPoolUnchanged ==
  [][/\ lsts'[pois] = lsts[pois]
     /\ \A k \in DOMAIN lsts[pois] : objs'[lsts[pois][k]] = objs[lsts[pois][k]]]_vars

\* C9 witness: a call has returned after sorting the pool, popping from it
\* and annotating the records it selected.
C9_Witness ==
  /\ Returned
  /\ PoolSize >= 3
  /\ Len(Selected) >= 2
  /\ \E i \in DOMAIN Selected : "_travel_from_prev_mins" \in DOMAIN objs[Selected[i]]
  /\ \E i \in DOMAIN Selected : objs[Selected[i]]["_travel_from_prev_km"] > 0
  /\ lsts[remaining] # lsts[pois]

\* C10: a second call with the same arguments and the very same pool object
\* returns an itinerary equal to the one the first call returned.
C10_SecondCallSameItinerary ==
  (pc = "idle" /\ calls >= 2) => Deep(itinerary) = previous[1]

\* C10 witness: the second call has returned a two-day itinerary with
\* selections on both days.
C10_Witness ==
  /\ pc = "idle"
  /\ calls = 2
  /\ Len(itinerary.days) = 2
  /\ itinerary.days[1].items # <<>>
  /\ itinerary.days[2].items # <<>>

\* the rating and the category a record carries, with the scorer's defaults
RatingOfRef(r) == IF "rating" \in DOMAIN objs[r] THEN objs[r].rating ELSE 40
CategoryOfRef(r) == IF "category" \in DOMAIN objs[r] THEN objs[r].category ELSE ""
ScoreOfRef(r) == score_poi(objs[r], prefs)

\* two labels that differ at most in the case of their letters
CaseVariants == {{"nature", "Nature"}, {"food", "Food"}}
SameIgnoringCase(a, b) == a = b \/ \E v \in CaseVariants : a \in v /\ b \in v
IsLowerCase(a) == a \notin {"Nature", "Food"}

\* the weight prefs holds under the lower-case spelling of the category of r
WeightOfRef(r) ==
  LET keys == {k \in DOMAIN prefs : IsLowerCase(k) /\ SameIgnoringCase(k, CategoryOfRef(r))}
  IN  IF keys = {} THEN 0 ELSE prefs[CHOOSE k \in keys : TRUE]

\* C11 as stated: the score of every record is its rating plus 2.0 times the
\* weight prefs holds under the category exactly as the record carries it,
\* 0 when that string is not a key of prefs.
C11_AsStated ==
  \A r \in DOMAIN objs :
    score_poi(objs[r], prefs) = RatingOfRef(r) + 2 * Get(prefs, CategoryOfRef(r), 0)

\* C11, the state part: the score of every record is its rating (4.0 when it
\* has none) plus 2.0 times the weight prefs holds under the lower-case
\* spelling of its category, 0 when that is not a key of prefs.
C11_ScoreOfRecords ==
  \A r \in DOMAIN objs :
    score_poi(objs[r], prefs) = RatingOfRef(r) + 2 * WeightOfRef(r)

\* C11, the step part: the step that scores the pool (the sort at the start
\* of a day) changes no record, and no step changes prefs.
C11_ScoringChangesNothing ==
  /\ prefs' = prefs
  /\ (pc = "for_days" /\ pc' = "for_slots") => objs' = objs

\* C11 amended: score(poi, prefs) is the rating plus 2.0 times the weight
\* prefs holds under the lower-cased category, 0 when that is not a key; the
\* scorer changes neither poi nor prefs.
C11_ScoreUsesLowerCasedCategory ==
  [](C11_ScoreOfRecords) /\ [][C11_ScoringChangesNothing]_vars

\* C11 witness: a day's pool has just been sorted, and a record whose
\* category is spelt "Nature" stands before a record without category and
\* with a higher rating, thanks to the weight under "nature".
C11_Witness ==
  /\ pc = "for_slots"
  /\ slot = 0
  /\ \E i, j \in DOMAIN Remaining :
       /\ i < j
       /\ CategoryOfRef(Remaining[i]) = "Nature"
       /\ "category" \notin DOMAIN objs[Remaining[j]]
       /\ RatingOfRef(Remaining[i]) < RatingOfRef(Remaining[j])
       /\ Remaining[i] > Remaining[j]

\* the posts of one query in the order the endpoints and attempts allow
IsPost(k, post) ==
  /\ post.endpoint = (k + 1) \div 2
  /\ post.attempt = IF k % 2 = 1 THEN 1 ELSE 2
  /\ post.endpoint \in DOMAIN OVERPASS_ENDPOINTS

\* C12, the state part: the posts of a query go endpoint by endpoint in list
\* order, two attempts each, six at most; a successful post is the last one
\* and its data is returned; an error is raised only after six failed
\* posts, and it is the error of the last one.
C12_PostsInOrder ==
  /\ Len(attempts) <= 6
  /\ \A k \in DOMAIN attempts : IsPost(k, attempts[k])
  /\ \A k \in DOMAIN attempts :
       attempts[k].outcome = "ok" => (k = Len(attempts) /\ fetch_pc = "returned")
  /\ fetch_pc = "returned" =>
       /\ attempts # <<>>
       /\ attempts[Len(attempts)].outcome = "ok"
       /\ data \in Sizes
  /\ fetch_pc = "raised" =>
       /\ Len(attempts) = 6
       /\ \A k \in DOMAIN attempts : attempts[k].outcome \in Errors
       /\ try_last_err = attempts[6].outcome
       /\ data = "None"

\* C12, the step part: after a successful post the query posts no more (the
\* next post belongs to a new query), and after the error is raised nothing
\* follows.
C12_NoPostAfterTheEnd ==
  /\ fetch_pc = "returned" => (attempts' = attempts \/ (attempts' = <<>> /\ stage' = stage + 1))
  /\ fetch_pc = "raised" => UNCHANGED fetch_vars

\* C12: one query tries the endpoints in list order, at most 2 attempts
\* each (6 in all), returns the first successful response at once, and
\* raises one error, the last failure, only after every attempt has failed.
C12_RetriesThenFallback == [](C12_PostsInOrder) /\ [][C12_NoPostAfterTheEnd]_vars

\* C12 witness: the first query came back on a later endpoint, and the
\* second query has raised after six failures of which the last two differ.
C12_Witness ==
  /\ fetch_pc = "raised"
  /\ stage = 2
  /\ attempts[5].outcome # attempts[6].outcome
  /\ try_last_err = attempts[6].outcome

\* the last stop of the day under way
LastStop == IF day_items = <<>> THEN None ELSE day_items[Len(day_items)]

KmToRef(r) ==
  IF LastStop = None THEN 0
  ELSE haversine_km(objs[LastStop].lat, objs[LastStop].lon, objs[r].lat, objs[r].lon)

MinsToRef(r) == IF LastStop = None THEN 0 ELSE travel_minutes_km(KmToRef(r), travel_mode)

\* eligible: affordable from the remaining trip budget and within 480 minutes
Eligible(r) ==
  /\ CostOfRef(r) <= remaining_budget
  /\ day_time + MinsToRef(r) + DurOfRef(r) <= 480

\* value = score - 0.5 * travelKm - 0.02 * avgCost, in 1/100000
ValueOfRef(r) == score_poi(objs[r], prefs) * 10000 - 50 * KmToRef(r) - 2 * CostOfRef(r)

EligibleRefs == {Remaining[j] : j \in {i \in DOMAIN Remaining : Eligible(Remaining[i])}}

\* r is eligible and no eligible candidate has a greater value
IsBest(r) ==
  /\ r \in EligibleRefs
  /\ \A q \in EligibleRefs : ValueOfRef(q) <= ValueOfRef(r)

\* this step selects a candidate
Selects == pc = "for_slots" /\ day_items' # day_items

\* C13, as a property of every step taken within a day: when a slot is free
\* and some candidate is eligible the step selects one; whatever a step
\* selects is eligible and of maximum value among the eligible; and a day
\* that ends with fewer than slots_per_day items ends with no candidate
\* eligible.
C13_Step ==
  pc = "for_slots" =>
    /\ (Len(day_items) < slots_per_day /\ EligibleRefs # {}) => Selects
    /\ Selects => \E r \in EligibleRefs :
                    /\ day_items' = Append(day_items, r)
                    /\ IsBest(r)
    /\ (pc' = "for_days" /\ Len(day_items) < slots_per_day) => EligibleRefs = {}

PosIn(s, r) == CHOOSE k \in DOMAIN s : s[k] = r

Refs(s) == {s[k] : k \in DOMAIN s}

\* C14, as a property of every step: the sort at the start of a day orders
\* the pool by score, descending, and keeps candidates of equal score in the
\* order they had; a selection takes, of the eligible candidates of maximum
\* value, the first in that pool, which has the highest score of them and,
\* among those of equal score, stood first in the caller's pool; and the
\* rest of the pool keeps its order.
C14_Step ==
  /\ (pc = "for_days" /\ pc' = "for_slots") =>
       LET pre == lsts[remaining]
           post == lsts'[remaining]
       IN  /\ Len(post) = Len(pre)
           /\ Refs(post) = Refs(pre)
           /\ \A i, j \in DOMAIN post :
                i < j => /\ ScoreOfRef(post[i]) >= ScoreOfRef(post[j])
                         /\ ScoreOfRef(post[i]) = ScoreOfRef(post[j])
                              => PosIn(pre, post[i]) < PosIn(pre, post[j])
  /\ Selects =>
       LET chosen == day_items'[Len(day_items')]
           tied == {r \in EligibleRefs : IsBest(r)}
       IN  /\ chosen \in tied
           /\ \A r \in tied \ {chosen} :
                /\ PosIn(Remaining, chosen) < PosIn(Remaining, r)
                /\ ScoreOfRef(chosen) >= ScoreOfRef(r)
                /\ ScoreOfRef(chosen) = ScoreOfRef(r) => chosen < r
           /\ \A i, j \in DOMAIN lsts'[remaining] :
                i < j => PosIn(Remaining, lsts'[remaining][i])
                           < PosIn(Remaining, lsts'[remaining][j])

\* C14: of several eligible candidates of maximum value the planner selects
\* the first in the pool as sorted by score at the start of the day: the one
\* of highest score and, among equal scores, the one that stood earlier in
\* the pool before the sort.
C14_TiesGoToFirstInSortedPool == [][C14_Step]_vars

\* the value a record has as the first stop of a day
FirstStopValue(r) == score_poi(objs[r], prefs) * 10000 - 2 * CostOfRef(r)

\* C14 witness: the first stop of a day was taken although a candidate that
\* stood earlier in the caller's pool, with a lower score, had the same
\* value and was eligible too.
C14_Witness ==
  /\ pc = "for_slots"
  /\ Len(day_items) = 1
  /\ \E j \in DOMAIN Remaining :
       LET chosen == day_items[1]
           other == Remaining[j]
       IN  /\ FirstStopValue(other) = FirstStopValue(chosen)
           /\ ScoreOfRef(other) < ScoreOfRef(chosen)
           /\ other < chosen
           /\ CostOfRef(other) <= remaining_budget + CostOfRef(chosen)
           /\ DurOfRef(other) <= 480

\* a timeline entry without its clock times
Unclocked(entry) == [entry EXCEPT !.start_min = 0, !.end_min = 0]

\* C15: a run that differs from the previous one only in start_hour (h2
\* now, h1 before) returns the same items in the same order on every day,
\* with the same annotations, day_cost, day_time_mins and trip totals, and
\* a timeline whose start_min and end_min are those of the previous run
\* minus 60 * (h1 - h2).
C15_StartHourOnlyShiftsClock ==
  (pc = "idle" /\ calls >= 2) =>
    LET before == previous[1]
        now == Deep(itinerary)
        shift == 60 * (previous[2] - start_hour)
    IN  /\ now.total_cost = before.total_cost
        /\ now.total_time_mins = before.total_time_mins
        /\ now.remaining_budget = before.remaining_budget
        /\ Len(now.days) = Len(before.days)
        /\ \A n \in DOMAIN now.days :
             /\ now.days[n].day = before.days[n].day
             /\ now.days[n].items = before.days[n].items
             /\ now.days[n].day_cost = before.days[n].day_cost
             /\ now.days[n].day_time_mins = before.days[n].day_time_mins
             /\ Len(now.days[n].timeline) = Len(before.days[n].timeline)
             /\ \A k \in DOMAIN now.days[n].timeline :
                  LET a == before.days[n].timeline[k]
                      b == now.days[n].timeline[k]
                  IN  /\ Unclocked(b) = Unclocked(a)
                      /\ a.start_min - b.start_min = shift
                      /\ a.end_min - b.end_min = shift

\* C15 witness: the second run, at another start hour than the first, has
\* returned two days with selections, the first with travel between stops.
C15_Witness ==
  /\ pc = "idle"
  /\ calls = 2
  /\ previous[2] # start_hour
  /\ Len(itinerary.days) = 2
  /\ Len(itinerary.days[1].items) >= 2
  /\ itinerary.days[1].timeline[2].travel_from_prev_mins > 0
  /\ itinerary.days[2].items # <<>>

\* the boost the scorer gives a record of category c
BoostOf(c) == score_poi([category |-> c, rating |-> 0], prefs)

\* C16 as stated: prefs holds 1.0 under every selected category and 0.2
\* under every other of the eight categories, so a record of a selected
\* category never gets a smaller boost than one of an unselected category.
C16_AsStated ==
  /\ \A c \in ALL_CATEGORIES :
       Get(prefs, c, 0) = IF c \in selected_categories THEN 10 ELSE 2
  /\ \A c1 \in selected_categories : \A c2 \in ALL_CATEGORIES \ selected_categories :
       BoostOf(c1) >= BoostOf(c2)

EntryMinutes(entry) == entry.end_min - entry.start_min + entry.travel_from_prev_mins

DayTimeOf(day) == day.day_time_mins

\* C17: in every day record, timeline entry k describes item k;
\* day_time_mins is the sum over the entries of (end_min - start_min) +
\* travel_from_prev_mins; the last entry of a non-empty day ends at
\* start_hour * 60 + day_time_mins; and the returned total_time_mins is the
\* sum of day_time_mins over the days.
C17_TimelineAccountsForDayTime ==
  /\ \A n \in DOMAIN itinerary.days :
       LET day == itinerary.days[n]
       IN  /\ Len(day.timeline) = Len(day.items)
           /\ \A k \in DOMAIN day.timeline :
                /\ day.timeline[k].name = objs[day.items[k]].name
                /\ day.timeline[k].lat = objs[day.items[k]].lat
                /\ day.timeline[k].avg_cost = CostOfRef(day.items[k])
                /\ day.timeline[k].travel_from_prev_mins = TravelOfRef(day.items[k])
                /\ day.timeline[k].end_min - day.timeline[k].start_min
                     = DurOfRef(day.items[k])
           /\ day.day_time_mins = SumOver(EntryMinutes, day.timeline)
           /\ day.timeline # <<>> =>
                day.timeline[Len(day.timeline)].end_min
                  = start_hour * 60 + day.day_time_mins
  /\ Returned => itinerary.total_time_mins = SumOver(DayTimeOf, itinerary.days)

\* C17 witness: a returned two-day itinerary, day 1 with travel between
\* stops and a stop of default duration, day 2 with a selection.
C17_Witness ==
  /\ Returned
  /\ Len(itinerary.days) = 2
  /\ Len(itinerary.days[1].items) >= 2
  /\ \E k \in DOMAIN itinerary.days[1].timeline :
       itinerary.days[1].timeline[k].travel_from_prev_mins > 0
  /\ \E k \in DOMAIN itinerary.days[1].items :
       "visit_duration_mins" \notin DOMAIN objs[itinerary.days[1].items[k]]
  /\ itinerary.days[2].items # <<>>
  /\ itinerary.total_time_mins > itinerary.days[1].day_time_mins

====
